---------------------------- MODULE Spec2Model ----------------------------
(***************************************************************************)
(* Model of the collage component of EngageCollagePrototype-v2.            *)
(*                                                                         *)
(* src/src/components/EngageImageCollage.tsx holds two variants of the     *)
(* component EngageImageCollage: lines 1-243 (no preview) and lines        *)
(* 245-560 (click-to-preview, with the state hook previewItem).  Both are  *)
(* modelled, the second with the suffix P on its names.                    *)
(*                                                                         *)
(* Conventions.  A JavaScript value that may be undefined or null is a     *)
(* sequence of length at most one: None is undefined/null, Some(v) is the  *)
(* value v.  Arrays are sequences; the code's indices are 0-based and the  *)
(* model keeps them (element i of an array a is a[i + 1]).  The            *)
(* presentational props gapPx and radiusPx, and the fields src and alt of  *)
(* a MediaItem, are read by no condition of the code and are left out.     *)
(***************************************************************************)
EXTENDS Integers, Sequences, FiniteSets, TLC

VARIABLES
    items,                  \* prop items: None (not an array) or Some(array)
    maxVisible,             \* prop maxVisible: None (omitted) or Some(n)
    portraitHeroWidthPct,   \* prop portraitHeroWidthPct: None or Some(n)
    previewItem,            \* useState hook of the preview variant
    out,                    \* what the variant without preview rendered
    outP                    \* what the variant with preview rendered

vars == <<items, maxVisible, portraitHeroWidthPct, previewItem, out, outP>>

----------------------------------------------------------------------------
(* Bounds of the model *)

MaxItems == 6

MaxMaxVisible == 5

----------------------------------------------------------------------------
(* JavaScript values *)

None == <<>>

Some(v) == <<v>>

isDefined(o) == Len(o) = 1

\* A default parameter value: ({ maxVisible = 4, ... }) takes the default
\* when the prop is undefined.
DefaultTo(o, d) == IF isDefined(o) THEN o[1] ELSE d

Min(a, b) == IF a < b THEN a ELSE b

Max(a, b) == IF a > b THEN a ELSE b

\* Array.prototype.slice(start, end): a negative index counts from the end,
\* both are clamped to [0, length], and the result is empty when end <= start.
slice(a, start, end) ==
    LET len == Len(a)
        k == IF start < 0 THEN Max(len + start, 0) ELSE Min(start, len)
        final == IF end < 0 THEN Max(len + end, 0) ELSE Min(end, len)
    IN  IF final <= k THEN <<>> ELSE [i \in 1..(final - k) |-> a[k + i]]

----------------------------------------------------------------------------
(* The variant without preview: EngageImageCollage.tsx lines 1-243 *)

LOCKED_RATIOS ==
    [HERO_PORTRAIT |-> "4 / 5", HERO_LANDSCAPE |-> "3 / 2",
     SECONDARY |-> "4 / 3", SQUARE |-> "1 / 1"]

isPortrait_NoPositiveGuard(item) ==
    LET w == item.width
        h == item.height
    IN  IF isDefined(w) /\ isDefined(h) THEN h[1] > w[1] ELSE FALSE

isPortrait_UnknownIsPortrait(item) ==
    LET w == item.width
        h == item.height
    IN  IF isDefined(w) /\ isDefined(h) /\ w[1] > 0 /\ h[1] > 0
        THEN h[1] > w[1]
        ELSE TRUE

isPortrait_GreaterOrEqual(item) ==
    LET w == item.width
        h == item.height
    IN  IF isDefined(w) /\ isDefined(h) /\ w[1] > 0 /\ h[1] > 0
        THEN h[1] >= w[1]
        ELSE FALSE

isPortrait(item) ==
    LET w == item.width
        h == item.height
    IN  IF isDefined(w) /\ isDefined(h) /\ w[1] > 0 /\ h[1] > 0
        THEN h[1] > w[1]
        ELSE FALSE

\* A rendered Tile: the box with the item's image at aspectRatio, and the
\* overlay label when overlayText is truthy (defined and not the empty string).
Tile(item, aspectRatio, overlayText) ==
    [item |-> item,
     aspectRatio |-> aspectRatio,
     overlay |-> IF isDefined(overlayText) /\ overlayText[1] # ""
                 THEN overlayText ELSE None]

DEFAULT_maxVisible == 4

DEFAULT_portraitHeroWidthPct == 66

safeItemsOf(its) == IF isDefined(its) THEN its[1] ELSE <<>>

visibleOf_NoTruncation(safeItems, maxV) == safeItems

visibleOf(safeItems, maxV) == slice(safeItems, 0, maxV)

remainingOf(safeItems, visible) == Len(safeItems) - Len(visible)

overlayOnIndexOf_OffByOne(remaining, visible) ==
    IF remaining > 0 THEN Len(visible) ELSE -1

overlayOnIndexOf(remaining, visible) ==
    IF remaining > 0 THEN Len(visible) - 1 ELSE -1

overlayTextOf(remaining) ==
    IF remaining > 0 THEN Some("+" \o ToString(remaining) \o " more") ELSE None

\* overlayText={i === overlayOnIndex ? overlayText : undefined}
overlayFor(i, overlayOnIndex, overlayText) ==
    IF i = overlayOnIndex THEN overlayText ELSE None

NullResult_Throws ==
    [result |-> "throw", template |-> "none", heroIsPortrait |-> FALSE,
     visible |-> <<>>, remaining |-> 0,
     tiles |-> <<>>, gridTemplateColumns |-> <<>>]

NullResult ==
    [result |-> "null", template |-> "none", heroIsPortrait |-> FALSE,
     visible |-> <<>>, remaining |-> 0,
     tiles |-> <<>>, gridTemplateColumns |-> <<>>]

\* isPortrait(hero) with hero = visible[0] undefined reads item.width of
\* undefined: a TypeError leaves the render.
ThrownResult(visible, remaining) ==
    [result |-> "throw", template |-> "none", heroIsPortrait |-> FALSE,
     visible |-> visible,
     remaining |-> remaining, tiles |-> <<>>, gridTemplateColumns |-> <<>>]

\* ====== 1 IMAGE ======
singleTiles_SquareFallback(hero, heroIsPortrait) ==
    LET aspectRatio == IF heroIsPortrait THEN LOCKED_RATIOS.HERO_PORTRAIT
                       ELSE LOCKED_RATIOS.SQUARE
    IN  <<Tile(hero, aspectRatio, None)>>

singleTiles(hero, heroIsPortrait) ==
    LET aspectRatio == IF heroIsPortrait THEN LOCKED_RATIOS.HERO_PORTRAIT
                       ELSE LOCKED_RATIOS.HERO_LANDSCAPE
    IN  <<Tile(hero, aspectRatio, None)>>

\* ====== 2 IMAGES ======
\* The ratio of both tiles; visible is in scope where the code computes it,
\* heroIsPortrait is all it reads.
pairAspectRatio_SecondDecides(visible, heroIsPortrait) ==
    IF isPortrait(visible[2]) THEN LOCKED_RATIOS.HERO_PORTRAIT
    ELSE LOCKED_RATIOS.SQUARE

pairAspectRatio(visible, heroIsPortrait) ==
    IF heroIsPortrait THEN LOCKED_RATIOS.HERO_PORTRAIT ELSE LOCKED_RATIOS.SQUARE

pairTiles(visible, heroIsPortrait, overlayOnIndex, overlayText) ==
    LET aspectRatio == pairAspectRatio(visible, heroIsPortrait)
    IN  [p \in 1..Len(visible) |->
            Tile(visible[p], aspectRatio,
                 overlayFor(p - 1, overlayOnIndex, overlayText))]

\* rightStack.map / bottomRow.map: visibleIndex = idx + 1 (hero is index 0)
secondaryTiles_Square(stack, overlayOnIndex, overlayText) ==
    [p \in 1..Len(stack) |->
        Tile(stack[p], LOCKED_RATIOS.SQUARE,
             overlayFor((p - 1) + 1, overlayOnIndex, overlayText))]

secondaryTiles(stack, overlayOnIndex, overlayText) ==
    [p \in 1..Len(stack) |->
        Tile(stack[p], LOCKED_RATIOS.SECONDARY,
             overlayFor((p - 1) + 1, overlayOnIndex, overlayText))]

\* ====== PORTRAIT HERO: hero left, images stacked right ======
rightStackOf_NoCap(secondary, secondaryCount) == secondary

rightStackOf(secondary, secondaryCount) ==
    slice(secondary, 0, Min(3, secondaryCount))

portraitHeroTiles(hero, secondary, overlayOnIndex, overlayText) ==
    LET rightStack == rightStackOf(secondary, Len(secondary))
    IN  <<Tile(hero, LOCKED_RATIOS.HERO_PORTRAIT,
               overlayFor(0, overlayOnIndex, overlayText))>>
        \o secondaryTiles(rightStack, overlayOnIndex, overlayText)

\* ====== LANDSCAPE HERO: hero top, 3 tiles below ======
bottomRowOf_CapTwo(secondary, secondaryCount) ==
    slice(secondary, 0, Min(2, secondaryCount))

bottomRowOf(secondary, secondaryCount) ==
    slice(secondary, 0, Min(3, secondaryCount))

landscapeHeroTiles(hero, secondary, overlayOnIndex, overlayText) ==
    LET bottomRow == bottomRowOf(secondary, Len(secondary))
    IN  <<Tile(hero, LOCKED_RATIOS.HERO_LANDSCAPE,
               overlayFor(0, overlayOnIndex, overlayText))>>
        \o secondaryTiles(bottomRow, overlayOnIndex, overlayText)

\* The branch the render returns from, as the template tag of the plan.
templateOf_PortraitFromTwo(visible, heroIsPortrait) ==
    IF Len(visible) = 1 THEN "single"
    ELSE IF heroIsPortrait THEN "portrait-hero-stack"
    ELSE IF Len(visible) = 2 THEN "pair"
    ELSE "landscape-hero-row"

templateOf(visible, heroIsPortrait) ==
    IF Len(visible) = 1 THEN "single"
    ELSE IF Len(visible) = 2 THEN "pair"
    ELSE IF heroIsPortrait THEN "portrait-hero-stack"
    ELSE "landscape-hero-row"

\* gridTemplateColumns of the grid the branch lays its tiles in, in fr units:
\* "1fr 1fr", `${pct}fr ${100 - pct}fr`, `repeat(${cols}, 1fr)` (the bottom
\* row); the single tile is in no grid.
gridTemplateColumnsOf_PairUsesPct(template, pct, tiles) ==
    IF template \in {"pair", "portrait-hero-stack"} THEN <<pct, 100 - pct>>
    ELSE IF template = "landscape-hero-row" THEN [c \in 1..(Len(tiles) - 1) |-> 1]
    ELSE <<>>

gridTemplateColumnsOf(template, pct, tiles) ==
    IF template = "pair" THEN <<1, 1>>
    ELSE IF template = "portrait-hero-stack" THEN <<pct, 100 - pct>>
    ELSE IF template = "landscape-hero-row" THEN [c \in 1..(Len(tiles) - 1) |-> 1]
    ELSE <<>>

EngageImageCollage(its, maxV, pctProp) ==
    LET mv == DefaultTo(maxV, DEFAULT_maxVisible)
        pct == DefaultTo(pctProp, DEFAULT_portraitHeroWidthPct)
        safeItems == safeItemsOf(its)
        visible == visibleOf(safeItems, mv)
        remaining == remainingOf(safeItems, visible)
    IN  IF Len(safeItems) = 0 THEN NullResult
        ELSE IF Len(visible) = 0 THEN ThrownResult(visible, remaining)
        ELSE
            LET hero == visible[1]
                heroIsPortrait == isPortrait(hero)
                secondary == slice(visible, 1, Len(visible))
                overlayOnIndex == overlayOnIndexOf(remaining, visible)
                overlayText == overlayTextOf(remaining)
                template == templateOf(visible, heroIsPortrait)
                tiles ==
                    IF template = "single" THEN singleTiles(hero, heroIsPortrait)
                    ELSE IF template = "pair"
                    THEN pairTiles(visible, heroIsPortrait, overlayOnIndex, overlayText)
                    ELSE IF template = "portrait-hero-stack"
                    THEN portraitHeroTiles(hero, secondary, overlayOnIndex, overlayText)
                    ELSE landscapeHeroTiles(hero, secondary, overlayOnIndex, overlayText)
            IN  [result |-> "element", template |-> template,
                 heroIsPortrait |-> heroIsPortrait,
                 visible |-> visible, remaining |-> remaining, tiles |-> tiles,
                 gridTemplateColumns |-> gridTemplateColumnsOf(template, pct, tiles)]

----------------------------------------------------------------------------
(* The variant with click-to-preview: EngageImageCollage.tsx lines 245-560 *)

LOCKED_RATIOSP ==
    [HERO_PORTRAIT |-> "4 / 5", HERO_LANDSCAPE |-> "3 / 2",
     SECONDARY |-> "4 / 3", SQUARE |-> "1 / 1"]

isPortraitP(item) ==
    LET w == item.width
        h == item.height
    IN  IF isDefined(w) /\ isDefined(h) /\ w[1] > 0 /\ h[1] > 0
        THEN h[1] > w[1]
        ELSE FALSE

\* onClick is the item the tile's handler passes to setPreviewItem.
TileP(item, aspectRatio, overlayText, onClick) ==
    [item |-> item,
     aspectRatio |-> aspectRatio,
     overlay |-> IF isDefined(overlayText) /\ overlayText[1] # ""
                 THEN overlayText ELSE None,
     onClick |-> onClick]

DEFAULT_maxVisibleP == 4

DEFAULT_portraitHeroWidthPctP == 66

safeItemsOfP(its) == IF isDefined(its) THEN its[1] ELSE <<>>

visibleOfP(safeItems, maxV) == slice(safeItems, 0, maxV)

remainingOfP(safeItems, visible) == Len(safeItems) - Len(visible)

overlayOnIndexOfP(remaining, visible) ==
    IF remaining > 0 THEN Len(visible) - 1 ELSE -1

overlayTextOfP(remaining) ==
    IF remaining > 0 THEN Some("+" \o ToString(remaining) \o " more") ELSE None

overlayForP(i, overlayOnIndex, overlayText) ==
    IF i = overlayOnIndex THEN overlayText ELSE None

\* const PreviewModal = previewItem ? <div ...> : null
PreviewModalOf(pv) == IF isDefined(pv) THEN pv ELSE None

\* return null comes before PreviewModal is built: nothing is presented.
NullResultP ==
    [result |-> "null", template |-> "none", heroIsPortrait |-> FALSE,
     visible |-> <<>>, remaining |-> 0,
     tiles |-> <<>>, gridTemplateColumns |-> <<>>, PreviewModal |-> None]

ThrownResultP(visible, remaining) ==
    [result |-> "throw", template |-> "none", heroIsPortrait |-> FALSE,
     visible |-> visible,
     remaining |-> remaining, tiles |-> <<>>, gridTemplateColumns |-> <<>>,
     PreviewModal |-> None]

singleTilesP(hero, heroIsPortrait) ==
    LET aspectRatio == IF heroIsPortrait THEN LOCKED_RATIOSP.HERO_PORTRAIT
                       ELSE LOCKED_RATIOSP.HERO_LANDSCAPE
    IN  <<TileP(hero, aspectRatio, None, Some(hero))>>

pairAspectRatioP(visible, heroIsPortrait) ==
    IF heroIsPortrait THEN LOCKED_RATIOSP.HERO_PORTRAIT ELSE LOCKED_RATIOSP.SQUARE

pairTilesP(visible, heroIsPortrait, overlayOnIndex, overlayText) ==
    LET aspectRatio == pairAspectRatioP(visible, heroIsPortrait)
    IN  [p \in 1..Len(visible) |->
            TileP(visible[p], aspectRatio,
                  overlayForP(p - 1, overlayOnIndex, overlayText),
                  Some(visible[p]))]

secondaryTilesP(stack, overlayOnIndex, overlayText) ==
    [p \in 1..Len(stack) |->
        TileP(stack[p], LOCKED_RATIOSP.SECONDARY,
              overlayForP((p - 1) + 1, overlayOnIndex, overlayText),
              Some(stack[p]))]

rightStackOfP_CapTwo(secondary, secondaryCount) ==
    slice(secondary, 0, Min(2, secondaryCount))

rightStackOfP(secondary, secondaryCount) ==
    slice(secondary, 0, Min(3, secondaryCount))

portraitHeroTilesP(hero, secondary, overlayOnIndex, overlayText) ==
    LET rightStack == rightStackOfP(secondary, Len(secondary))
    IN  <<TileP(hero, LOCKED_RATIOSP.HERO_PORTRAIT,
                overlayForP(0, overlayOnIndex, overlayText), Some(hero))>>
        \o secondaryTilesP(rightStack, overlayOnIndex, overlayText)

bottomRowOfP(secondary, secondaryCount) ==
    slice(secondary, 0, Min(3, secondaryCount))

landscapeHeroTilesP(hero, secondary, overlayOnIndex, overlayText) ==
    LET bottomRow == bottomRowOfP(secondary, Len(secondary))
    IN  <<TileP(hero, LOCKED_RATIOSP.HERO_LANDSCAPE,
                overlayForP(0, overlayOnIndex, overlayText), Some(hero))>>
        \o secondaryTilesP(bottomRow, overlayOnIndex, overlayText)

templateOfP(visible, heroIsPortrait) ==
    IF Len(visible) = 1 THEN "single"
    ELSE IF Len(visible) = 2 THEN "pair"
    ELSE IF heroIsPortrait THEN "portrait-hero-stack"
    ELSE "landscape-hero-row"

gridTemplateColumnsOfP(template, pct, tiles) ==
    IF template = "pair" THEN <<1, 1>>
    ELSE IF template = "portrait-hero-stack" THEN <<pct, 100 - pct>>
    ELSE IF template = "landscape-hero-row" THEN [c \in 1..(Len(tiles) - 1) |-> 1]
    ELSE <<>>

EngageImageCollageP(its, maxV, pctProp, pv) ==
    LET mv == DefaultTo(maxV, DEFAULT_maxVisibleP)
        pct == DefaultTo(pctProp, DEFAULT_portraitHeroWidthPctP)
        safeItems == safeItemsOfP(its)
        visible == visibleOfP(safeItems, mv)
        remaining == remainingOfP(safeItems, visible)
    IN  IF Len(safeItems) = 0 THEN NullResultP
        ELSE IF Len(visible) = 0 THEN ThrownResultP(visible, remaining)
        ELSE
            LET hero == visible[1]
                heroIsPortrait == isPortraitP(hero)
                secondary == slice(visible, 1, Len(visible))
                overlayOnIndex == overlayOnIndexOfP(remaining, visible)
                overlayText == overlayTextOfP(remaining)
                template == templateOfP(visible, heroIsPortrait)
                tiles ==
                    IF template = "single" THEN singleTilesP(hero, heroIsPortrait)
                    ELSE IF template = "pair"
                    THEN pairTilesP(visible, heroIsPortrait, overlayOnIndex, overlayText)
                    ELSE IF template = "portrait-hero-stack"
                    THEN portraitHeroTilesP(hero, secondary, overlayOnIndex, overlayText)
                    ELSE landscapeHeroTilesP(hero, secondary, overlayOnIndex, overlayText)
            IN  [result |-> "element", template |-> template,
                 heroIsPortrait |-> heroIsPortrait,
                 visible |-> visible, remaining |-> remaining, tiles |-> tiles,
                 gridTemplateColumns |-> gridTemplateColumnsOfP(template, pct, tiles),
                 PreviewModal |-> PreviewModalOf(pv)]

----------------------------------------------------------------------------
(* The inputs a caller supplies *)

\* (width, height) of a hero: missing, portrait, landscape, square, one
\* dimension missing, and a dimension that is a number but not positive.
HeroShapes ==
    { <<None, None>>, <<Some(1), Some(2)>>, <<Some(2), Some(1)>>,
      <<Some(2), Some(2)>>, <<None, Some(2)>>, <<Some(0), Some(2)>> }

\* (width, height) of the items after the hero; within one list they share it.
SecondaryShapes == { <<None, None>>, <<Some(1), Some(2)>> }

MediaItem(i, shape) == [id |-> ToString(i), width |-> shape[1], height |-> shape[2]]

MakeItems(n, hs, ss) ==
    [i \in 1..n |-> IF i = 1 THEN MediaItem(i, hs) ELSE MediaItem(i, ss)]

ItemLists ==
    {<<>>} \cup { MakeItems(n, hs, ss) :
                    n \in 1..MaxItems, hs \in HeroShapes, ss \in SecondaryShapes }

ItemsProps == {None} \cup { Some(l) : l \in ItemLists }

MaxVisibleProps == {None} \cup { Some(n) : n \in (-1)..MaxMaxVisible }

PortraitHeroWidthPctProps == {None, Some(50)}

----------------------------------------------------------------------------
(* The state machine: mount, re-renders by the caller, pointer events *)

\* The post card's media slot: the collage with maxVisible = 4 when the post
\* has media, nothing otherwise.
EngagePostCard(mediaItems) ==
    IF Len(mediaItems) > 0
    THEN EngageImageCollage(Some(mediaItems), Some(4), None)
    ELSE NullResult

EngagePostCardP(mediaItems) ==
    IF Len(mediaItems) > 0
    THEN EngageImageCollageP(Some(mediaItems), Some(4), None, None)
    ELSE NullResultP

Mounted == out.result # "throw" /\ outP.result # "throw"

\* The caller's array once a render has run on it.  The render only reads it:
\* Array.isArray, length and slice, which copies.
inputAfterRender_Shift(its) ==
    IF isDefined(its) /\ Len(its[1]) > 0 THEN Some(Tail(its[1])) ELSE its

inputAfterRender(its) == its

inputAfterRenderP(its) == its

\* The setter of the state hook, called with a value: the value replaces the
\* state, whatever it was.
setPreviewItem_Toggle(pv, v) == IF pv = v THEN None ELSE v

setPreviewItem(pv, v) == v

\* A render pass with the plan kept from the previous pass while the items
\* are the same.
Render_Memoized(its, mv, pct, pv) ==
    /\ items' = inputAfterRenderP(inputAfterRender(its))
    /\ maxVisible' = mv
    /\ portraitHeroWidthPct' = pct
    /\ previewItem' = pv
    /\ out' = IF its = items THEN out ELSE EngageImageCollage(its, mv, pct)
    /\ outP' = IF its = items THEN outP ELSE EngageImageCollageP(its, mv, pct, pv)

\* A render pass that drops the preview whenever the caller's items changed.
Render_ResetsPreview(its, mv, pct, pv) ==
    /\ items' = inputAfterRenderP(inputAfterRender(its))
    /\ maxVisible' = mv
    /\ portraitHeroWidthPct' = pct
    /\ previewItem' = IF its = items THEN pv ELSE None
    /\ out' = EngageImageCollage(its, mv, pct)
    /\ outP' = EngageImageCollageP(its, mv, pct, previewItem')

Render(its, mv, pct, pv) ==
    /\ items' = inputAfterRenderP(inputAfterRender(its))
    /\ maxVisible' = mv
    /\ portraitHeroWidthPct' = pct
    /\ previewItem' = pv
    /\ out' = EngageImageCollage(its, mv, pct)
    /\ outP' = EngageImageCollageP(its, mv, pct, pv)

Init ==
    /\ items \in ItemsProps
    /\ maxVisible \in MaxVisibleProps
    /\ portraitHeroWidthPct \in PortraitHeroWidthPctProps
    /\ previewItem = None
    /\ out = EngageImageCollage(items, maxVisible, portraitHeroWidthPct)
    /\ outP = EngageImageCollageP(items, maxVisible, portraitHeroWidthPct, previewItem)

\* How the caller's list changes from one render to the next: the scenario
\* count changes (items are added or removed at the end) or the photos are
\* replaced (same count, other items).
ListChange(a, b) ==
    \/ Len(a) = Len(b)
    \/ \A i \in 1..Min(Len(a), Len(b)) : a[i] = b[i]

\* The caller renders the component again with another items list.
RerenderItems ==
    /\ Mounted
    /\ \E its \in ItemsProps :
          /\ ListChange(safeItemsOf(items), safeItemsOf(its))
          /\ Render(its, maxVisible, portraitHeroWidthPct, previewItem)

\* The caller renders the component again with another maxVisible.
RerenderMaxVisible ==
    /\ Mounted
    /\ \E mv \in MaxVisibleProps :
          Render(items, mv, portraitHeroWidthPct, previewItem)

\* The caller renders the component again with another portraitHeroWidthPct.
RerenderHeroWidth ==
    /\ Mounted
    /\ \E pct \in PortraitHeroWidthPctProps :
          Render(items, maxVisible, pct, previewItem)

TileClickOn_OpensHero(k) ==
    Render(items, maxVisible, portraitHeroWidthPct,
           setPreviewItem(previewItem, outP.tiles[1].onClick))

TileClickOn_OpensLastItem(k) ==
    Render(items, maxVisible, portraitHeroWidthPct,
           setPreviewItem(previewItem, Some(items[1][Len(items[1])])))

\* onClick of the k-th emitted tile: setPreviewItem(item), then a render.
TileClickOn(k) ==
    Render(items, maxVisible, portraitHeroWidthPct,
           setPreviewItem(previewItem, outP.tiles[k].onClick))

TileClick ==
    /\ Mounted
    /\ \E k \in 1..Len(outP.tiles) : TileClickOn(k)

\* onClick of the close button: setPreviewItem(null); the event then bubbles
\* to the backdrop's onClick, which sets null again.
CloseButtonClick ==
    /\ Mounted
    /\ isDefined(outP.PreviewModal)
    /\ Render(items, maxVisible, portraitHeroWidthPct,
              setPreviewItem(setPreviewItem(previewItem, None), None))

\* onClick of the backdrop: setPreviewItem(null).
BackdropClick ==
    /\ Mounted
    /\ isDefined(outP.PreviewModal)
    /\ Render(items, maxVisible, portraitHeroWidthPct,
              setPreviewItem(previewItem, None))

\* The previewed image's handler lets the click reach the backdrop.
PreviewImageClick_Bubbles ==
    /\ Mounted
    /\ isDefined(outP.PreviewModal)
    /\ Render(items, maxVisible, portraitHeroWidthPct,
              setPreviewItem(previewItem, None))

\* onClick of the previewed image: e.stopPropagation(), no state is set.
PreviewImageClick ==
    /\ Mounted
    /\ isDefined(outP.PreviewModal)
    /\ UNCHANGED vars

Next ==
    \/ RerenderItems
    \/ RerenderMaxVisible
    \/ RerenderHeroWidth
    \/ TileClick
    \/ CloseButtonClick
    \/ BackdropClick
    \/ PreviewImageClick

Spec == Init /\ [][Next]_vars

----------------------------------------------------------------------------
(* What the claims speak of, stated from the inputs alone *)

\* The caller's list (empty when the prop is no array) and the options in force.
Items == IF items = None THEN <<>> ELSE items[1]

MaxV == IF maxVisible = None THEN 4 ELSE maxVisible[1]

HeroWidthPercent == IF portraitHeroWidthPct = None THEN 66 ELSE portraitHeroWidthPct[1]

VisibleCount == IF Len(Items) < MaxV THEN Len(Items) ELSE MaxV

OverflowCount == IF Len(Items) - MaxV > 0 THEN Len(Items) - MaxV ELSE 0

\* The claims' inputs: a non-empty list and maxVisible >= 1.
ValidInput == Len(Items) >= 1 /\ MaxV >= 1

Present(d) == d # None

\* Portrait as the specification words it, and as amended (positive dimensions).
PortraitAsSpecified(it) ==
    Present(it.width) /\ Present(it.height) /\ it.height[1] > it.width[1]

PortraitPositive(it) ==
    /\ Present(it.width) /\ Present(it.height)
    /\ it.width[1] > 0 /\ it.height[1] > 0
    /\ it.height[1] > it.width[1]

HasLabel(t) == t.overlay # None

LabelledTiles(plan) == { k \in 1..Len(plan.tiles) : HasLabel(plan.tiles[k]) }

\* The number N of the "+N more" label a plan shows, 0 when it shows none.
LabelText(n) == "+" \o ToString(n) \o " more"

LabelCount(plan) ==
    IF LabelledTiles(plan) = {} THEN 0
    ELSE LET k == CHOOSE j \in LabelledTiles(plan) : TRUE
         IN  CHOOSE n \in 0..(MaxItems + 1) : plan.tiles[k].overlay = <<LabelText(n)>>

----------------------------------------------------------------------------
(* C1 *)

C1_For(plan) ==
    /\ Len(Items) = 0 => plan.result = "null" /\ plan.tiles = <<>>
    /\ ValidInput =>
          /\ plan.result = "element"
          /\ Len(plan.visible) = VisibleCount
          /\ \A k \in 1..VisibleCount : plan.visible[k] = Items[k]
          /\ plan.remaining = Len(Items) - VisibleCount
          /\ plan.remaining = OverflowCount
          /\ Len(plan.tiles) >= 1
          /\ plan.tiles[1].item = Items[1]
          /\ \A k \in 1..Len(plan.tiles) : plan.tiles[k].item = Items[k]

\* C1: for every items list and every maxVisible >= 1 the visible set is the
\* prefix of the items of length min(len(items), maxVisible), in input order;
\* tile k shows items[k] and the hero is items[0]; the overflow count is
\* len(items) - visibleCount = max(0, len(items) - maxVisible).
C1_VisiblePrefix == C1_For(out) /\ C1_For(outP)

\* A render that truncates: more items than maxVisible, several tiles.
C1_Witness ==
    /\ Len(Items) = 6 /\ MaxV = 4
    /\ Len(out.visible) = 4 /\ out.remaining = 2
    /\ Len(outP.visible) = 4 /\ outP.remaining = 2

----------------------------------------------------------------------------
(* C2 *)

C2_For(plan) ==
    (ValidInput /\ plan.result = "element") =>
        /\ \A k \in 1..Len(plan.tiles) :
              HasLabel(plan.tiles[k]) <=> (OverflowCount > 0 /\ k = VisibleCount)
        /\ OverflowCount > 0 => Cardinality(LabelledTiles(plan)) = 1
        /\ OverflowCount = 0 => LabelledTiles(plan) = {}

\* C2: for every non-empty items list and every maxVisible >= 1, a tile
\* carries the overlay label iff overflowCount > 0 and it is the last visible
\* tile; exactly one tile carries it when overflowCount > 0, none otherwise.
C2_OverlayOnLastVisible == C2_For(out) /\ C2_For(outP)

----------------------------------------------------------------------------
(* C3 *)

C3_OriginalFor(plan) ==
    plan.result = "element" =>
        (plan.heroIsPortrait <=> PortraitAsSpecified(Items[1]))

C3_For(plan) ==
    plan.result = "element" =>
        /\ plan.heroIsPortrait <=> PortraitPositive(Items[1])
        /\ plan.tiles[1].aspectRatio = "4 / 5" <=> PortraitPositive(Items[1])

----------------------------------------------------------------------------
(* C4 *)

C4_For(plan) ==
    ValidInput =>
        /\ plan.result = "element"
        /\ plan.template \in {"single", "pair", "portrait-hero-stack", "landscape-hero-row"}
        /\ plan.template = "single" <=> VisibleCount = 1
        /\ plan.template = "pair" <=> VisibleCount = 2
        /\ plan.template = "portrait-hero-stack" <=>
              (VisibleCount >= 3 /\ PortraitPositive(Items[1]))
        /\ plan.template = "landscape-hero-row" <=>
              (VisibleCount >= 3 /\ ~PortraitPositive(Items[1]))

\* C4: template selection is total and exclusive: for every non-empty list
\* and maxVisible >= 1 exactly one template applies, decided by the number of
\* visible items and the hero's orientation alone: single iff 1 visible, pair
\* iff 2, portrait-hero-stack iff 3 or more and the hero is portrait,
\* landscape-hero-row iff 3 or more and the hero is landscape or unknown.
C4_TemplateSelection == C4_For(out) /\ C4_For(outP)

\* Portrait secondaries behind a landscape hero: the landscape template.
C4_Witness ==
    /\ VisibleCount >= 3
    /\ ~PortraitPositive(Items[1]) /\ PortraitPositive(Items[2])
    /\ out.template = "landscape-hero-row" /\ outP.template = "landscape-hero-row"

----------------------------------------------------------------------------
(* C5 *)

\* A tile sized by its container, with none of the locked ratios.
NoFixedRatio(t) == t.aspectRatio \notin {"4 / 5", "3 / 2", "4 / 3", "1 / 1"}

C5_For(plan) ==
    (ValidInput /\ VisibleCount = 3 /\ PortraitPositive(Items[1])) =>
        /\ plan.template = "portrait-hero-stack"
        /\ plan.gridTemplateColumns = <<HeroWidthPercent, 100 - HeroWidthPercent>>
        /\ Len(plan.tiles) = 3
        /\ plan.tiles[1].item = Items[1]
        /\ plan.tiles[1].aspectRatio = "4 / 5"
        /\ \A k \in 2..3 : NoFixedRatio(plan.tiles[k])
        /\ Len(Items) = 3 => LabelledTiles(plan) = {}

\* C5: whenever exactly 3 items are visible and the hero is portrait, the hero
\* is in the left column (heroWidthPercent wide) at 4:5 and there are exactly
\* 2 right-column tiles, each half of the hero's height with no fixed aspect
\* ratio of its own; no tile carries an overlay when len(items) = 3.
C5_ThreeVisiblePortraitHero == C5_For(out) /\ C5_For(outP)

----------------------------------------------------------------------------
(* C6 *)

C6_For(plan) ==
    (MaxV >= 1 /\ plan.result # "throw") =>
        Len(plan.tiles) + LabelCount(plan) = Len(Items)

\* C6: for every items list and every maxVisible >= 1 the number of tiles
\* emitted plus the number N of the "+N more" label (0 without a label)
\* equals len(items).
C6_EveryItemAccounted == C6_For(out) /\ C6_For(outP)

----------------------------------------------------------------------------
(* C7 *)

C7_For(plan) ==
    MaxV >= 1 =>
        /\ Len(plan.tiles) <= 4
        /\ plan.template \in {"portrait-hero-stack", "landscape-hero-row"} =>
              /\ Len(plan.tiles) - 1 <= 3
              /\ plan.template = "landscape-hero-row" =>
                    Len(plan.gridTemplateColumns) <= 3

\* C7: in every plan, for any items list and any maxVisible >= 1, the secondary
\* row or column holds at most 3 tiles, so no plan has more than 4 tiles.
C7_AtMostThreeSecondaries == C7_For(out) /\ C7_For(outP)

\* Five items are visible and the cap leaves four tiles, in either template.
C7_Witness ==
    /\ VisibleCount >= 5
    /\ Len(out.visible) >= 5 /\ Len(outP.visible) >= 5
    /\ Len(out.tiles) = 4 /\ Len(outP.tiles) = 4
    /\ out.template = "portrait-hero-stack"

----------------------------------------------------------------------------
(* C8 *)

C8_For(plan) ==
    (Len(Items) > 4 /\ MaxV = 4) =>
        /\ plan.result = "element"
        /\ Len(plan.tiles) = 4
        /\ \A k \in 1..4 : plan.tiles[k].item = Items[k]
        /\ LabelledTiles(plan) = {4}
        /\ plan.tiles[4].overlay = <<LabelText(Len(Items) - 4)>>
        /\ plan.template = IF PortraitPositive(Items[1])
                           THEN "portrait-hero-stack" ELSE "landscape-hero-row"

\* C8: for every items list with more than 4 items rendered with
\* maxVisible = 4, exactly 4 tiles are emitted (items[0..3]), the tile at
\* 0-based index 3 and no other carries "+{len(items) - 4} more", and the
\* template is the portrait or the landscape hero template by the hero.
C8_OverflowAtFour == C8_For(out) /\ C8_For(outP)

\* Six items at maxVisible = 4: "+2 more" on the fourth tile.
C8_Witness ==
    /\ Len(Items) = 6 /\ maxVisible = <<4>>
    /\ out.tiles[4].overlay = <<"+2 more">>
    /\ outP.tiles[4].overlay = <<"+2 more">>

----------------------------------------------------------------------------
(* C9 *)

C9_For(plan) ==
    (ValidInput /\ VisibleCount = 1) =>
        /\ plan.template = "single"
        /\ Len(plan.tiles) = 1
        /\ plan.tiles[1].item = Items[1]
        /\ plan.tiles[1].aspectRatio =
              IF PortraitPositive(Items[1]) THEN "4 / 5" ELSE "3 / 2"

\* C9: when exactly 1 item is visible the plan is a single tile showing the
\* hero, at 4:5 if the hero is portrait and at 3:2 otherwise.
C9_SingleTile == C9_For(out) /\ C9_For(outP)

\* A single square hero is shown at 3:2.
C9_Witness ==
    /\ VisibleCount = 1 /\ Len(Items) >= 1
    /\ Items[1].width = <<2>> /\ Items[1].height = <<2>>
    /\ out.tiles[1].aspectRatio = "3 / 2" /\ outP.tiles[1].aspectRatio = "3 / 2"

----------------------------------------------------------------------------
(* C10 *)

C10_For(plan) ==
    (ValidInput /\ VisibleCount = 2) =>
        /\ plan.template = "pair"
        /\ Len(plan.tiles) = 2
        /\ plan.gridTemplateColumns = <<1, 1>>
        /\ plan.tiles[1].aspectRatio = plan.tiles[2].aspectRatio
        /\ plan.tiles[1].aspectRatio =
              IF PortraitPositive(Items[1]) THEN "4 / 5" ELSE "1 / 1"

\* C10: when exactly 2 items are visible the plan is a pair of two equally
\* wide tiles with the same aspect ratio, 4:5 if the hero is portrait and 1:1
\* otherwise, whatever the dimensions of the second item.
C10_Pair == C10_For(out) /\ C10_For(outP)

\* A portrait second item beside a hero that is not portrait: both tiles 1:1.
C10_Witness ==
    /\ VisibleCount = 2 /\ Len(Items) >= 2
    /\ ~PortraitPositive(Items[1]) /\ PortraitPositive(Items[2])
    /\ out.tiles[2].aspectRatio = "1 / 1" /\ outP.tiles[2].aspectRatio = "1 / 1"

----------------------------------------------------------------------------
(* C11 *)

C11_For(plan) ==
    /\ (ValidInput /\ VisibleCount >= 3 /\ ~PortraitPositive(Items[1])) =>
          /\ plan.template = "landscape-hero-row"
          /\ plan.tiles[1].item = Items[1]
          /\ plan.tiles[1].aspectRatio = "3 / 2"
          /\ Len(plan.tiles) >= 2
          /\ plan.gridTemplateColumns = [c \in 1..(Len(plan.tiles) - 1) |-> 1]
          /\ \A k \in 2..Len(plan.tiles) :
                plan.tiles[k].item = Items[k] /\ plan.tiles[k].aspectRatio = "4 / 3"
    /\ (ValidInput /\ VisibleCount >= 4 /\ PortraitPositive(Items[1])) =>
          /\ plan.template = "portrait-hero-stack"
          /\ plan.tiles[1].item = Items[1]
          /\ plan.tiles[1].aspectRatio = "4 / 5"
          /\ Len(plan.tiles) - 1 \in 1..3
          /\ \A k \in 2..Len(plan.tiles) :
                plan.tiles[k].item = Items[k] /\ plan.tiles[k].aspectRatio = "4 / 3"

\* C11: with 3 or more visible items and a landscape or unknown hero, the hero
\* tile comes first at 3:2 and the bottom row holds the secondaries in equally
\* wide columns, as many as secondary tiles are emitted, each at 4:3; with 4
\* or more visible items and a portrait hero, the hero is at 4:5 and each of
\* the up-to-3 right-column secondaries is at 4:3.
C11_HeroTemplates == C11_For(out) /\ C11_For(outP)

\* Four visible items behind a portrait hero: the third secondary is at 4:3.
C11_Witness ==
    /\ VisibleCount >= 4 /\ Len(Items) >= 4 /\ MaxV >= 1
    /\ PortraitPositive(Items[1])
    /\ Len(out.tiles) = 4 /\ out.tiles[4].aspectRatio = "4 / 3"
    /\ Len(outP.tiles) = 4 /\ outP.tiles[4].aspectRatio = "4 / 3"

\* Three secondaries under a landscape hero, in a 3-column row.
C11_WitnessLandscape ==
    /\ VisibleCount >= 3 /\ Len(Items) >= 3 /\ MaxV >= 1
    /\ ~PortraitPositive(Items[1])
    /\ out.gridTemplateColumns = <<1, 1, 1>> /\ outP.gridTemplateColumns = <<1, 1, 1>>

----------------------------------------------------------------------------
(* C12 *)

AllLackDimensions ==
    \A k \in 1..Len(Items) : Items[k].width = None /\ Items[k].height = None

C12_For(plan) ==
    (ValidInput /\ AllLackDimensions) =>
        /\ plan.result = "element"
        /\ ~plan.heroIsPortrait
        /\ plan.template # "portrait-hero-stack"
        /\ Len(plan.tiles) >= 1
        /\ VisibleCount = 1 => plan.tiles[1].aspectRatio = "3 / 2"
        /\ VisibleCount = 2 =>
              \A k \in 1..Len(plan.tiles) : plan.tiles[k].aspectRatio = "1 / 1"
        /\ VisibleCount >= 3 =>
              /\ plan.tiles[1].aspectRatio = "3 / 2"
              /\ \A k \in 2..Len(plan.tiles) : plan.tiles[k].aspectRatio = "4 / 3"

\* C12: for any list of 1 or more items that all lack width and height
\* (rendered with a maxVisible >= 1, as the input contract has it), the hero
\* is classified landscape, every emitted tile gets a locked ratio (3:2
\* single; 1:1 both tiles of a pair; 3:2 hero and 4:3 secondaries for 3 or
\* more visible), no portrait template is selected and no error is raised.
C12_MissingMetadata == C12_For(out) /\ C12_For(outP)

\* Five items without dimensions behind the default maxVisible.
C12_Witness ==
    /\ Len(Items) = 5 /\ AllLackDimensions /\ maxVisible = None
    /\ out.template = "landscape-hero-row" /\ outP.template = "landscape-hero-row"
    /\ out.tiles[4].aspectRatio = "4 / 3" /\ outP.tiles[4].aspectRatio = "4 / 3"

----------------------------------------------------------------------------
(* C13 *)

C13_For(plan) ==
    (items = None \/ items = <<<<>>>>) =>
        plan.result = "null" /\ plan.tiles = <<>>

\* C13: an empty items list, and an items value that is no list, yields the
\* empty result without an error, for every value of the options.
C13_EmptyResult == C13_For(out) /\ C13_For(outP)

\* No list at all, rendered with options outside the contract.
C13_Witness ==
    /\ items = None /\ maxVisible = <<0>> /\ portraitHeroWidthPct = <<50>>
    /\ out.result = "null" /\ outP.result = "null"

C13_WitnessEmptyList ==
    /\ items = <<<<>>>> /\ maxVisible = <<-1>>
    /\ out.result = "null" /\ outP.result = "null"

----------------------------------------------------------------------------
(* C14 *)

\* The layout plan of a render of the variant with preview: everything but
\* the preview overlay.
LayoutOf(plan) ==
    [result |-> plan.result, template |-> plan.template,
     tiles |-> [k \in 1..Len(plan.tiles) |->
                   [item |-> plan.tiles[k].item,
                    aspectRatio |-> plan.tiles[k].aspectRatio,
                    overlay |-> plan.tiles[k].overlay]],
     gridTemplateColumns |-> plan.gridTemplateColumns]

----------------------------------------------------------------------------
(* C15 *)

\* The caller's list is what the last render read of it: as long as the
\* render counted it, with the items the render saw, in their order.
C15_AsRead(plan) ==
    /\ plan.result = "null" => Len(Items) = 0
    /\ plan.result # "null" =>
          /\ Len(Items) = Len(plan.visible) + plan.remaining
          /\ \A k \in 1..Len(plan.visible) : Items[k] = plan.visible[k]

----------------------------------------------------------------------------
(* C16 *)

\* The preview controller's state: Closed is None, Open(item) is Some(item).
Closed == previewItem = None

Open(it) == previewItem = <<it>>

\* C16: the preview starts Closed and holds at most one item; a click on a
\* tile leads to Open(that tile's item), from Closed and from Open alike; a
\* close request leads from Open to Closed; no other event (a re-render, a
\* click on the previewed image) changes the preview.  So the preview is
\* Open(x) exactly when the last of these events was a click on x's tile.
C16_PreviewController ==
    /\ Closed
    /\ [][ /\ Len(previewItem') <= 1
           /\ \A k \in 1..Len(outP.tiles) :
                 (Mounted /\ TileClickOn(k)) => Open(outP.tiles[k].item)'
           /\ (CloseButtonClick \/ BackdropClick) => (~Closed /\ Closed')
           /\ previewItem' # previewItem =>
                 (TileClick \/ CloseButtonClick \/ BackdropClick)
           /\ (\/ items' # items
               \/ maxVisible' # maxVisible
               \/ portraitHeroWidthPct' # portraitHeroWidthPct) =>
                 previewItem' = previewItem ]_vars

\* Open on a secondary tile's item, which the plan on screen emits.
C16_Witness ==
    /\ outP.result = "element" /\ Len(outP.tiles) >= 3
    /\ Open(outP.tiles[3].item)
    /\ outP.PreviewModal = <<outP.tiles[3].item>>

----------------------------------------------------------------------------
(* C17 *)

\* C17: while the preview is Open, an activation of the close control and a
\* pointer activation on the backdrop each leave it Closed, with no overlay;
\* a pointer activation on the displayed image leaves it Open with the same
\* item.
C17_CloseRequests ==
    [][ /\ CloseButtonClick =>
              (~Closed /\ Closed' /\ outP'.PreviewModal = None)
        /\ BackdropClick =>
              (~Closed /\ Closed' /\ outP'.PreviewModal = None)
        /\ PreviewImageClick =>
              (~Closed /\ previewItem' = previewItem
                 /\ outP'.PreviewModal = outP.PreviewModal) ]_vars

\* The preview is Open over a single tile and its overlay is presented: the
\* state in which the three activations can be made.
C17_Witness ==
    /\ ~Closed /\ outP.template = "single"
    /\ outP.PreviewModal = previewItem
    /\ outP.tiles[1].item = previewItem[1]

----------------------------------------------------------------------------
(* C18 *)

\* C18: in every reachable state where the preview is Open(item), also after
\* re-renders that changed the items list or made it empty, the overlay with
\* its close control and backdrop is presented, which is what enables the
\* close requests (CloseButtonClick, BackdropClick) that lead to Closed.
C18_OpenCanClose ==
    (Mounted /\ ~Closed) => outP.PreviewModal = previewItem

----------------------------------------------------------------------------
(* C19 *)

\* What the handlers make of the preview state pv.
AfterTileClicked(pv, k) == setPreviewItem(pv, outP.tiles[k].onClick)

AfterCloseRequested(pv) == setPreviewItem(pv, None)

\* C19: every preview transition is idempotent: a click on a tile applied
\* twice in a row gives the state it gives applied once, Open(item); a close
\* request applied twice in a row (the close control's click, which also
\* reaches the backdrop's handler) gives the state it gives once, Closed.
C19_Idempotent ==
    /\ \A k \in 1..Len(outP.tiles) :
          /\ AfterTileClicked(AfterTileClicked(previewItem, k), k)
                = AfterTileClicked(previewItem, k)
          /\ AfterTileClicked(previewItem, k) = <<outP.tiles[k].item>>
    /\ AfterCloseRequested(AfterCloseRequested(previewItem))
          = AfterCloseRequested(previewItem)
    /\ AfterCloseRequested(previewItem) = None

\* A tile is clicked whose item is already open: the second of two clicks.
C19_Witness ==
    /\ outP.result = "element" /\ Len(outP.tiles) >= 2
    /\ Open(outP.tiles[2].item)
    /\ outP.PreviewModal = previewItem

----------------------------------------------------------------------------
(* C20 *)

C20_For(plan) ==
    MaxV \in 1..4 =>
        /\ Len(plan.tiles) = VisibleCount
        /\ \A k \in 1..VisibleCount : plan.tiles[k].item = Items[k]

C20_ForPostCard(card) ==
    /\ Len(card.tiles) = Min(Len(Items), 4)
    /\ \A k \in 1..Min(Len(Items), 4) : card.tiles[k].item = Items[k]

\* C20: for every maxVisible from 1 to 4 and every items list, every visible
\* item is emitted as a tile, in order: the number of tiles is
\* min(len(items), maxVisible), so the cap of 3 secondaries removes no visible
\* item; the same holds for the collage the post card renders, which always
\* passes maxVisible = 4.
C20_AllVisibleEmitted ==
    /\ C20_For(out) /\ C20_For(outP)
    /\ C20_ForPostCard(EngagePostCard(Items))
    /\ C20_ForPostCard(EngagePostCardP(Items))

\* Six items at maxVisible = 4 under a landscape hero: the bottom row holds
\* exactly the three visible secondaries, in the component and in the post card.
C20_Witness ==
    /\ MaxV = 4 /\ Len(Items) = 6
    /\ out.template = "landscape-hero-row" /\ Len(out.tiles) = 4
    /\ out.tiles[4].item = Items[4] /\ outP.tiles[4].item = Items[4]
    /\ Len(EngagePostCard(Items).tiles) = 4

----------------------------------------------------------------------------
(* C21 *)

\* C21: no invocation ends with an exception: for every items list and every
\* integer maxVisible, 0 and negative values included, the render ends with a
\* plan or with the empty result.
C21_NeverThrows ==
    /\ out.result \in {"element", "null"}
    /\ outP.result \in {"element", "null"}

----------------------------------------------------------------------------
(* C22 *)

C22_SamePlanForEveryWidth ==
    \A pct \in PortraitHeroWidthPctProps :
        /\ out.template # "portrait-hero-stack" =>
              LayoutOf(EngageImageCollage(items, maxVisible, pct)) = LayoutOf(out)
        /\ outP.template # "portrait-hero-stack" =>
              LayoutOf(EngageImageCollageP(items, maxVisible, pct, previewItem))
                  = LayoutOf(outP)

C22_For(plan) ==
    plan.template = "portrait-hero-stack" =>
        /\ plan.gridTemplateColumns = <<HeroWidthPercent, 100 - HeroWidthPercent>>
        /\ plan.gridTemplateColumns[1] + plan.gridTemplateColumns[2] = 100
        /\ portraitHeroWidthPct = None => plan.gridTemplateColumns = <<66, 34>>

\* C22: the hero width percentage matters to the portrait-hero template only:
\* a single, pair or landscape-hero-row plan (and the empty result) is the same
\* for every value of the option, and the portrait-hero template sizes its two
\* columns heroWidthPercent and 100 - heroWidthPercent, 66 and 34 by default,
\* which sum to 100.
C22_HeroWidthOnlyPortraitHero ==
    /\ C22_SamePlanForEveryWidth
    /\ C22_For(out) /\ C22_For(outP)

\* A portrait hero rendered with the option set to 50: columns 50 / 50.
C22_Witness ==
    /\ portraitHeroWidthPct = Some(50)
    /\ out.template = "portrait-hero-stack" /\ outP.template = "portrait-hero-stack"
    /\ out.gridTemplateColumns = <<50, 50>> /\ outP.gridTemplateColumns = <<50, 50>>

\* The other case: a pair rendered with the option set to 50.
C22_WitnessPair ==
    /\ portraitHeroWidthPct = Some(50)
    /\ out.template = "pair" /\ out.gridTemplateColumns = <<1, 1>>

----------------------------------------------------------------------------
(* C23 *)

\* The items of the tiles a plan emits.
EmittedItems(plan) == {plan.tiles[k].item : k \in 1..Len(plan.tiles)}

\* C23: only emitted tiles can be previewed: every step that opens the preview
\* on an item, or moves it to another item, is made from a render that emitted
\* a tile of that item; an item behind the "+N more" overflow, which has no
\* tile, never becomes the previewed item.
C23_OnlyEmittedPreviewed ==
    [][ (previewItem' # previewItem /\ previewItem' # None) =>
            /\ previewItem'[1] \in EmittedItems(outP)
            /\ \A i \in 1..Len(Items) :
                   i > Len(outP.tiles) => previewItem'[1] # Items[i] ]_vars

\* A preview opened on the last emitted tile while items stay hidden behind
\* the overflow label.
C23_Witness ==
    /\ Mounted /\ ~Closed
    /\ outP.remaining > 0 /\ Len(Items) > Len(outP.tiles)
    /\ Len(outP.tiles) = 4 /\ previewItem[1] = outP.tiles[4].item

----------------------------------------------------------------------------
(* C24 *)

\* C24: layout and preview are independent: a tile click or a close request
\* (any step that changes the preview) leaves the plan of both variants and
\* the props unchanged, and a re-render with other items or options leaves
\* the preview as it was.
C24_LayoutPreviewIndependent ==
    [][ /\ previewItem' # previewItem =>
              /\ LayoutOf(outP)' = LayoutOf(outP)
              /\ LayoutOf(out)' = LayoutOf(out)
              /\ items' = items /\ maxVisible' = maxVisible
              /\ portraitHeroWidthPct' = portraitHeroWidthPct
        /\ (LayoutOf(outP)' # LayoutOf(outP) \/ items' # items
              \/ maxVisible' # maxVisible
              \/ portraitHeroWidthPct' # portraitHeroWidthPct) =>
              previewItem' = previewItem ]_vars

\* An open preview over a plan of three tiles other than the one it was
\* opened on: a re-render came after the click.
C24_Witness ==
    /\ Mounted /\ ~Closed
    /\ Len(outP.tiles) = 3
    /\ previewItem[1] \notin EmittedItems(outP)
    /\ outP.PreviewModal = previewItem

----------------------------------------------------------------------------
(* C25 *)

\* C25: whenever the preview is Open(item) and the collage is rendered with a
\* non-empty list, item (by its id) is in that list.
C25_PreviewedItemInList ==
    (~Closed /\ Len(Items) > 0) =>
        \E i \in 1..Len(Items) : Items[i].id = previewItem[1].id

----------------------------------------------------------------------------
(* C26 *)

\* C26: the variant without preview and the variant with click-to-preview
\* compute the same plan for the same items and options: same outcome, same
\* template, same tiles in the same order with the same aspect ratios and the
\* same overlay label on the same tile, same columns, whatever the preview
\* holds.
C26_VariantsAgree == LayoutOf(out) = LayoutOf(outP)

\* Five visible items behind a portrait hero with one more hidden, rendered by
\* both variants while the second one's preview is open.
C26_Witness ==
    /\ ~Closed /\ isDefined(outP.PreviewModal)
    /\ MaxV = 5 /\ Len(Items) = 6
    /\ out.template = "portrait-hero-stack" /\ outP.template = "portrait-hero-stack"
    /\ Len(out.tiles) = 4 /\ Len(outP.tiles) = 4

=============================================================================
